---- MODULE Spec2Model ----
(***************************************************************************)
(* Model of porcupine's langserver plugin (porcupine/plugins/lsp.py): the  *)
(* registry of LangServer objects, the poll loop, the document sync calls  *)
(* and the supervision of the langserver process.                          *)
(*                                                                         *)
(* The plugin runs on tkinter's main thread: every callback (a tab event   *)
(* or an after() timer) runs to completion before the next one starts, so  *)
(* each callback is one action.  The langserver process runs concurrently  *)
(* and has its own actions.  Callbacks are written as operators from a     *)
(* "world" record (the value of every variable) to a world record, so that *)
(* a callback that calls another one is the composition of the two.        *)
(***************************************************************************)
EXTENDS Integers, Sequences, FiniteSets, TLC

\* ------------------------------------------------------------------ bounds
MaxTabs == 2          \* file tabs the user opens
MaxSessions == 2      \* LangServer objects ever constructed
MaxEdits == 2         \* change notifications per LangServer
MaxRequests == 2      \* completion requests per LangServer
MaxPipe == 1          \* messages waiting in a langserver's stdout pipe
MaxRepeated == 1      \* completion requests to a langserver that repeats responses
MaxOutput == 2        \* chunks of output that a command run by an Executor writes
MaxTyped == 2         \* characters of the line before the cursor
MaxName == 2          \* characters of a completion item's label and texts
MaxDoc == 3           \* characters of a completion item's documentation
MaxBytes == 2         \* bytes a langserver writes to its stdout (fallback transport)
MaxReads == 3         \* calls of read() on the fallback transport
MaxBatch == 2         \* messages that one read of a tick returns (BatchSpec)
MaxChunks == 3        \* calls of write() on the socket transport
MaxRuns == 2          \* Executors that run_command makes, one after the other

Keys == {"k1", "k2"}  \* LangServerId values (command, port, project_root)
Tabs == 1 .. MaxTabs
Sess == 1 .. MaxSessions
ExitCodes == {0}      \* exit codes of a langserver that exits by itself
Texts == {0, 1}       \* contents of a text widget; an edit changes the content

None == 0             \* Python's None where a session or a tab is expected
NoVal == -1           \* a message field that the message does not have
SIGKILL == 9

VARIABLES
    langservers,      \* the module-level dict: LangServerId -> LangServer
    servers,          \* the LangServer objects, by identity
    procs,            \* their subprocess.Popen processes and stdio pipes
    after,            \* the tkinter after() callback pending for each LangServer
    tabs,             \* the file tabs
    log,              \* per LangServer, the termination messages logged
    executor,         \* the Executor of the run plugin (run/no_terminal.py)
    candidate,        \* a completion item of a response and what is made of it
    stdio,            \* a SubprocessStdIO where fcntl is None (the thread and its queue)
    dispatch,         \* the events that the last callback handled, and its log.exception calls
    sockio,           \* a LocalhostSocketIO, its thread and the langserver's end
    runner            \* the NoTerminalRunner: where run_command is, the Executors it replaced

vars == <<langservers, servers, procs, after, tabs, log, executor, candidate, stdio,
          dispatch, sockio, runner>>

\* ------------------------------------------------- messages on the wire
Msg(m, i, t, x, v) == [method |-> m, id |-> i, tab |-> t, text |-> x, version |-> v]

InitializedNotification == Msg("initialized", NoVal, None, NoVal, NoVal)
DidOpen(t, x, v) == Msg("textDocument/didOpen", NoVal, t, x, v)
CompletionRequest(i, t) == Msg("textDocument/completion", i, t, NoVal, NoVal)
ShutdownRequest(i) == Msg("shutdown", i, None, NoVal, NoVal)
ExitNotification == Msg("exit", NoVal, None, NoVal, NoVal)

Response(i) == [kind |-> "response", id |-> i]

\* ------------------------------------------------- the protocol client
\* sansio_lsp_client.Client is a library the plugin imports; its part of the
\* LangServer record is state, outgoing, next_id and unanswered.
ClientNew ==
    [state |-> "Starting",
     outgoing |-> <<Msg("initialize", 0, None, NoVal, NoVal)>>,
     next_id |-> 1,
     unanswered |-> (0 :> "initialize")]

\* Client.send(): the bytes queued so far; the queue is emptied.
ClientSend(sv) == [sv EXCEPT !.outgoing = <<>>]

ClientNotify(sv, msg) == [sv EXCEPT !.outgoing = Append(@, msg)]

ClientRequest(sv, method, msg) ==
    [sv EXCEPT !.outgoing = Append(@, msg),
               !.unanswered = (sv.next_id :> method) @@ @,
               !.next_id = @ + 1]

ClientShutdown(sv) ==
    [ClientRequest(sv, "shutdown", ShutdownRequest(sv.next_id))
        EXCEPT !.state = "ShuttingDown"]

ClientExit(sv) == [ClientNotify(sv, ExitNotification) EXCEPT !.state = "Exited"]

ClientDidChange(sv, t, x, v) == ClientNotify(sv, Msg("textDocument/didChange", NoVal, t, x, v))

ClientCompletions(sv, t) ==
    ClientRequest(sv, "textDocument/completion", CompletionRequest(sv.next_id, t))

Forget(f, i) == [j \in DOMAIN f \ {i} |-> f[j]]

\* A notification of the langserver that the plugin has no handler for (the
\* client makes an event of it, such as ShowMessage).
Notification == [kind |-> "notification", id |-> NoVal]

\* Client.recv() of one message: the client after it, and the events it yields.
\* A response to no unanswered request yields no event.
ClientRecvOne(sv, m) ==
    IF m.kind = "notification"
    THEN [client |-> sv, events |-> <<[kind |-> "Other", id |-> NoVal]>>]
    ELSE IF m.kind = "response" /\ m.id \in DOMAIN sv.unanswered
    THEN LET method == sv.unanswered[m.id]
             rest == [sv EXCEPT !.unanswered = Forget(@, m.id)]
         IN  CASE method = "initialize" ->
                    [client |-> [ClientNotify(rest, InitializedNotification)
                                    EXCEPT !.state = "Normal"],
                     events |-> <<[kind |-> "Initialized", id |-> m.id]>>]
               [] method = "shutdown" ->
                    [client |-> rest,
                     events |-> <<[kind |-> "Shutdown", id |-> m.id]>>]
               [] OTHER ->
                    [client |-> rest,
                     events |-> <<[kind |-> "Completion", id |-> m.id]>>]
    ELSE [client |-> sv, events |-> <<>>]

\* Bytes that the client cannot decode.
Garbage == [kind |-> "garbage", id |-> NoVal]

\* Client.recv() raises: the bytes are decoded before any message is handled,
\* so the client is as it was.
ClientRecvRaises(msgs) == \E i \in 1 .. Len(msgs) : msgs[i] = Garbage

RECURSIVE ClientRecv(_, _)
ClientRecv(sv, msgs) ==
    IF msgs = <<>>
    THEN [client |-> sv, events |-> <<>>]
    ELSE LET one == ClientRecvOne(sv, Head(msgs))
             more == ClientRecv(one.client, Tail(msgs))
         IN  [client |-> more.client, events |-> one.events \o more.events]

\* ------------------------------------------------- the world record
World ==
    [langservers |-> langservers, servers |-> servers, procs |-> procs,
     after |-> after, tabs |-> tabs, log |-> log,
     ret |-> "none",           \* what _run_stuff_once returned: "True", "False", "raise"
     got |-> None,             \* what get_lang_server returned (NoVal: it raised)
     said |-> "none",          \* what get_lang_server logged
     dispatched |-> <<>>,      \* the events _run_stuff_once gave to _handle_lsp_event
     exceptions |-> <<>>]      \* what _run_stuff_once logged with log.exception

Commit(W) ==
    /\ langservers' = W.langservers
    /\ servers' = W.servers
    /\ procs' = W.procs
    /\ after' = W.after
    /\ tabs' = W.tabs
    /\ log' = W.log
    /\ executor' = executor
    /\ candidate' = candidate
    /\ stdio' = stdio
    /\ dispatch' = [dispatched |-> W.dispatched, exceptions |-> W.exceptions]
    /\ sockio' = sockio
    /\ runner' = runner

\* ------------------------------------------------- the process and its pipes
ProcessNew(status, code) ==
    [status |-> status,        \* "running", "stdout_closed" or "exited"
     exit_code |-> code,       \* NoVal while the process has not exited
     stdin |-> <<>>,           \* every message written to its stdin so far
     stdout |-> <<>>,          \* messages it wrote that were not read yet
     answered |-> {}]          \* ids of the requests it has responded to

\* Popen.kill() followed (sooner or later) by the death of the process.
ProcessKill(W, s) ==
    IF W.procs[s].status = "exited"
    THEN W
    ELSE [W EXCEPT !.procs[s].status = "exited", !.procs[s].exit_code = -SIGKILL]

\* The process exits by itself with exit code c.
ProcessExit(W, s, c) ==
    [W EXCEPT !.procs[s].status = "exited", !.procs[s].exit_code = c]

\* What the process may do between two statements of a callback: nothing, exit
\* with some exit code, or close its stdout and keep running.  Closing stdout
\* shows only in the read that reports the end of the file, so the model lets
\* it happen right before that read and nowhere else.
Races == {<<"none", NoVal>>, <<"close", NoVal>>} \cup {<<"exit", c>> : c \in ExitCodes}

ProcessRace(W, s, d) ==
    CASE d[1] = "none" -> W
      [] d[1] = "close" ->
            IF W.procs[s].status = "running" /\ W.procs[s].stdout = <<>>
            THEN [W EXCEPT !.procs[s].status = "stdout_closed"]
            ELSE W
      [] OTHER ->
            IF W.procs[s].status # "exited" THEN ProcessExit(W, s, d[2]) ELSE W

\* SubprocessStdIO.write raises BrokenPipeError when the process is gone and
\* there is something to write; an empty write never reaches the pipe.
WriteRaises(W, s, bytes) == W.procs[s].status = "exited" /\ bytes # <<>>

SubprocessStdIOWrite(W, s, bytes) ==
    [W EXCEPT !.procs[s].stdin = @ \o bytes]

\* SubprocessStdIO.read with non-blocking stdout: "None" (nothing to read now),
\* "closed" (b'', end of file) or "data" (the first n messages of the pipe; a
\* read may return less than what is in the pipe).
ReadResult(W, s) ==
    IF W.procs[s].stdout # <<>> THEN "data"
    ELSE IF W.procs[s].status = "running" THEN "None"
    ELSE "closed"

\* ------------------------------------------------- LangServer
LangServerNew(k) ==
    ClientNew @@
    [id |-> k,
     completion_infos |-> <<>>,
     version_counter |-> 0,
     tabs_opened |-> <<>>,
     is_shutting_down_cleanly |-> FALSE,
     \* history: _get_removed_from_langservers was called while another
     \* LangServer was registered under this one's id
     stale |-> FALSE]

_is_in_langservers(W, s) == W.langservers[W.servers[s].id] = s

\* A faulty variant: the entry of the id is deleted whoever it belongs to.
_get_removed_from_langservers_any(W, s) ==
    IF W.langservers[W.servers[s].id] # None
    THEN [W EXCEPT !.langservers[W.servers[s].id] = None]
    ELSE W

_get_removed_from_langservers(W, s) ==
    IF _is_in_langservers(W, s)
    THEN [W EXCEPT !.langservers[W.servers[s].id] = None]
    ELSE [W EXCEPT !.servers[s].stale = @ \/ W.langservers[W.servers[s].id] # None]

LogTermination(W, s) ==
    [W EXCEPT !.log[s] = Append(@,
        [level |-> IF W.servers[s].is_shutting_down_cleanly THEN "info" ELSE "error",
         exit_code |-> W.procs[s].exit_code])]

\* A faulty variant: a process that still runs is never killed but polled again.
_ensure_langserver_process_quits_soon_patient(W, s) ==
    IF W.procs[s].status # "exited"
    THEN [W EXCEPT !.after[s] = "quit_soon"]
    ELSE _get_removed_from_langservers(LogTermination(W, s), s)

_ensure_langserver_process_quits_soon(W, s) ==
    IF W.procs[s].status # "exited" /\ W.servers[s].state = "Exited"
    THEN [W EXCEPT !.after[s] = "quit_soon"]
    ELSE _get_removed_from_langservers(LogTermination(ProcessKill(W, s), s), s)

_send_tab_opened_message(W, s, t) ==
    [W EXCEPT !.servers[s] = ClientNotify(@, DidOpen(t, W.tabs[t].text, 0))]

\* A faulty variant: the tabs are told to the langserver last to first.
RECURSIVE SendTabsOpenedBackwards(_, _, _)
SendTabsOpenedBackwards(W, s, ts) ==
    IF ts = <<>> THEN W
    ELSE _send_tab_opened_message(SendTabsOpenedBackwards(W, s, Tail(ts)), s, Head(ts))

\* for tab in self.tabs_opened: self._send_tab_opened_message(tab)
RECURSIVE SendTabsOpened(_, _, _)
SendTabsOpened(W, s, ts) ==
    IF ts = <<>> THEN W
    ELSE SendTabsOpened(_send_tab_opened_message(W, s, Head(ts)), s, Tail(ts))

\* A faulty variant: the context of a completion is read and left in the table.
_handle_lsp_event_keeps_context(W, s, ev) ==
    CASE ev.kind = "Initialized" ->
            SendTabsOpened(W, s, W.servers[s].tabs_opened)
      [] ev.kind = "Shutdown" ->
            _get_removed_from_langservers(
                [W EXCEPT !.servers[s] = ClientExit(@)], s)
      [] ev.kind = "Completion" ->
            IF ev.id \notin DOMAIN W.servers[s].completion_infos
            THEN W
            ELSE LET t == W.servers[s].completion_infos[ev.id]
                 IN  IF W.tabs[t].status = "closed"
                     THEN W
                     ELSE [W EXCEPT !.tabs[t].completions = Append(@, ev.id)]
      [] OTHER -> W

\* One event; an exception raised by the handler is caught by the caller,
\* which keeps what the handler did before raising.
_handle_lsp_event(W, s, ev) ==
    CASE ev.kind = "Initialized" ->
            SendTabsOpened(W, s, W.servers[s].tabs_opened)
      [] ev.kind = "Shutdown" ->
            _get_removed_from_langservers(
                [W EXCEPT !.servers[s] = ClientExit(@)], s)
      [] ev.kind = "Completion" ->
            IF ev.id \notin DOMAIN W.servers[s].completion_infos
            THEN W      \* KeyError from dict.pop
            ELSE LET t == W.servers[s].completion_infos[ev.id]
                     popped == [W EXCEPT !.servers[s].completion_infos = Forget(@, ev.id)]
                 IN  IF W.tabs[t].status = "closed"
                     THEN popped       \* TclError: the tab's widgets are destroyed
                     ELSE [popped EXCEPT !.tabs[t].completions = Append(@, ev.id)]
      [] OTHER -> W     \* NotImplementedError

\* The exception that _handle_lsp_event raises for the event, or "none".
EventRaises(W, s, ev) ==
    CASE ev.kind \in {"Initialized", "Shutdown"} -> "none"
      [] ev.kind = "Completion" ->
            IF ev.id \notin DOMAIN W.servers[s].completion_infos
            THEN "KeyError"
            ELSE IF W.tabs[W.servers[s].completion_infos[ev.id]].status = "closed"
            THEN "TclError"
            ELSE "none"
      [] OTHER -> "NotImplementedError"

\* try: self._handle_lsp_event(lsp_event); except Exception: log.exception(...)
Dispatch(W, s, ev) ==
    LET W1 == [_handle_lsp_event(W, s, ev) EXCEPT !.dispatched = Append(@, ev)]
    IN  IF EventRaises(W, s, ev) # "none"
        THEN [W1 EXCEPT !.exceptions = Append(@, "error while handling langserver event")]
        ELSE W1

\* A faulty variant: an exception of the handler ends the loop over the events.
RECURSIVE HandleEventsUntilRaise(_, _, _)
HandleEventsUntilRaise(W, s, evs) ==
    IF evs = <<>> THEN W
    ELSE IF EventRaises(W, s, Head(evs)) # "none"
    THEN Dispatch(W, s, Head(evs))
    ELSE HandleEventsUntilRaise(Dispatch(W, s, Head(evs)), s, Tail(evs))

RECURSIVE HandleEvents(_, _, _)
HandleEvents(W, s, evs) ==
    IF evs = <<>> THEN W
    ELSE HandleEvents(Dispatch(W, s, Head(evs)), s, Tail(evs))

\* A faulty variant: the messages in front of the bytes that cannot be decoded
\* are handled.
ReadAndHandleDecodedPart(W, s, n, d) ==
    LET W1 == ProcessRace(W, s, d)
        r == ReadResult(W1, s)
    IN  CASE r = "None" -> [W1 EXCEPT !.ret = "True"]
          [] r = "closed" ->
                [_ensure_langserver_process_quits_soon(W1, s) EXCEPT !.ret = "False"]
          [] OTHER ->
                LET pipe == W1.procs[s].stdout
                    got == SelectSeq(SubSeq(pipe, 1, n), LAMBDA m : m # Garbage)
                    W2 == [W1 EXCEPT !.procs[s].stdout = SubSeq(pipe, n + 1, Len(pipe))]
                    rcv == ClientRecv(W2.servers[s], got)
                    W3 == [W2 EXCEPT !.servers[s] = rcv.client]
                IN  [HandleEvents(W3, s, rcv.events) EXCEPT !.ret = "True"]

\* The rest of _run_stuff_once after the write.
ReadAndHandle(W, s, n, d) ==
    LET W1 == ProcessRace(W, s, d)
        r == ReadResult(W1, s)
    IN  CASE r = "None" -> [W1 EXCEPT !.ret = "True"]
          [] r = "closed" ->
                [_ensure_langserver_process_quits_soon(W1, s) EXCEPT !.ret = "False"]
          [] OTHER ->
                LET pipe == W1.procs[s].stdout
                    got == SubSeq(pipe, 1, n)
                    W2 == [W1 EXCEPT !.procs[s].stdout = SubSeq(pipe, n + 1, Len(pipe))]
                    rcv == ClientRecv(W2.servers[s], got)
                    W3 == [W2 EXCEPT !.servers[s] = rcv.client]
                IN  IF ClientRecvRaises(got)
                    THEN [W2 EXCEPT !.ret = "True",
                            !.exceptions = Append(@, "error while receiving lsp events")]
                    ELSE [HandleEvents(W3, s, rcv.events) EXCEPT !.ret = "True"]

\* A faulty variant: the tick reads and handles, and writes nothing.
_run_stuff_once_no_write(W, s, n, d) ==
    ReadAndHandle(W, s, n, d)

\* A faulty variant: nothing is written once the client is in state Exited.
_run_stuff_once_quiet_when_exited(W, s, n, d) ==
    LET bytes == W.servers[s].outgoing
        sent == [W EXCEPT !.servers[s] = ClientSend(@)]
    IN  IF W.servers[s].state = "Exited"
        THEN ReadAndHandle(W, s, n, d)
        ELSE IF WriteRaises(W, s, bytes)
        THEN [sent EXCEPT !.ret = "raise"]
        ELSE ReadAndHandle(SubprocessStdIOWrite(sent, s, bytes), s, n, d)

\* n: how many of the waiting messages the read returns.  d: what the process
\* does between the write and the read, one of Races.
_run_stuff_once(W, s, n, d) ==
    LET bytes == W.servers[s].outgoing
        sent == [W EXCEPT !.servers[s] = ClientSend(@)]
    IN  IF WriteRaises(W, s, bytes)
        THEN [sent EXCEPT !.ret = "raise"]
        ELSE ReadAndHandle(SubprocessStdIOWrite(sent, s, bytes), s, n, d)

\* A faulty variant: the next tick is scheduled whatever the last one returned.
run_stuff_always_again(W, s, n, d) ==
    LET W1 == _run_stuff_once([W EXCEPT !.after[s] = "none"], s, n, d)
    IN  IF W1.ret # "raise" THEN [W1 EXCEPT !.after[s] = "run_stuff"] ELSE W1

run_stuff(W, s, n, d) ==
    LET W1 == _run_stuff_once([W EXCEPT !.after[s] = "none"], s, n, d)
    IN  IF W1.ret = "True" THEN [W1 EXCEPT !.after[s] = "run_stuff"] ELSE W1

\* A faulty variant: the open notification is sent whatever the state of the client.
open_tab_always_sends(W, s, t) ==
    _send_tab_opened_message([W EXCEPT !.servers[s].tabs_opened = Append(@, t)], s, t)

open_tab(W, s, t) ==
    LET W1 == [W EXCEPT !.servers[s].tabs_opened = Append(@, t)]
    IN  IF W1.servers[s].state = "Normal"
        THEN _send_tab_opened_message(W1, s, t)
        ELSE W1

Remove(seq, x) == SelectSeq(seq, LAMBDA y : y # x)

\* A faulty variant: the session is not asked whether it is still registered.
close_tab_no_registry_check(W, s, t) ==
    LET W1 == [W EXCEPT !.servers[s].tabs_opened = Remove(@, t)]
    IN  IF W1.servers[s].tabs_opened # <<>>
        THEN W1
        ELSE LET W2 == _get_removed_from_langservers(
                           [W1 EXCEPT !.servers[s].is_shutting_down_cleanly = TRUE], s)
             IN  IF W2.servers[s].state = "Normal"
                 THEN [W2 EXCEPT !.servers[s] = ClientShutdown(@)]
                 ELSE ProcessKill(W2, s)

\* A faulty variant: the shutdown starts at every closed tab, not at the last one.
close_tab_no_empty_check(W, s, t) ==
    IF ~_is_in_langservers(W, s)
    THEN W
    ELSE LET W1 == [W EXCEPT !.servers[s].tabs_opened = Remove(@, t)]
             W2 == _get_removed_from_langservers(
                       [W1 EXCEPT !.servers[s].is_shutting_down_cleanly = TRUE], s)
         IN  IF W2.servers[s].state = "Normal"
             THEN [W2 EXCEPT !.servers[s] = ClientShutdown(@)]
             ELSE ProcessKill(W2, s)

\* A faulty variant: the shutdown request is sent whatever the state of the client.
close_tab_always_shutdown(W, s, t) ==
    IF ~_is_in_langservers(W, s)
    THEN W
    ELSE LET W1 == [W EXCEPT !.servers[s].tabs_opened = Remove(@, t)]
         IN  IF W1.servers[s].tabs_opened # <<>>
             THEN W1
             ELSE LET W2 == _get_removed_from_langservers(
                                [W1 EXCEPT !.servers[s].is_shutting_down_cleanly = TRUE], s)
                  IN  [W2 EXCEPT !.servers[s] = ClientShutdown(@)]

close_tab(W, s, t) ==
    IF ~_is_in_langservers(W, s)
    THEN W
    ELSE LET W1 == [W EXCEPT !.servers[s].tabs_opened = Remove(@, t)]
         IN  IF W1.servers[s].tabs_opened # <<>>
             THEN W1
             ELSE LET W2 == _get_removed_from_langservers(
                                [W1 EXCEPT !.servers[s].is_shutting_down_cleanly = TRUE], s)
                  IN  IF W2.servers[s].state = "Normal"
                      THEN [W2 EXCEPT !.servers[s] = ClientShutdown(@)]
                      ELSE ProcessKill(W2, s)

\* A faulty variant: the pending table is keyed by the tab, not by the request id.
request_completions_keyed_by_tab(W, s, t) ==
    IF W.servers[s].state # "Normal"
    THEN W
    ELSE LET W1 == [W EXCEPT !.servers[s] = ClientCompletions(@, t)]
         IN  [W1 EXCEPT !.servers[s].completion_infos = (t :> t) @@ @]

request_completions(W, s, t) ==
    IF W.servers[s].state # "Normal"
    THEN W
    ELSE LET lsp_id == W.servers[s].next_id
             W1 == [W EXCEPT !.servers[s] = ClientCompletions(@, t)]
         IN  [W1 EXCEPT !.servers[s].completion_infos = (lsp_id :> t) @@ @]

\* A faulty variant: the version is taken from the counter before the state is looked at.
send_change_events_counts_first(W, s, t) ==
    LET W1 == [W EXCEPT !.servers[s].version_counter = @ + 1]
    IN  IF W.servers[s].state # "Normal"
        THEN W1
        ELSE [W1 EXCEPT !.servers[s] =
                 ClientDidChange(@, t, W.tabs[t].text, W.servers[s].version_counter)]

\* A faulty variant: the version is the first value of the counter every time.
send_change_events_same_version(W, s, t) ==
    IF W.servers[s].state # "Normal"
    THEN W
    ELSE [W EXCEPT !.servers[s] =
                [ClientDidChange(@, t, W.tabs[t].text, 0)
                    EXCEPT !.version_counter = @ + 1]]

send_change_events(W, s, t) ==
    IF W.servers[s].state # "Normal"
    THEN W
    ELSE [W EXCEPT !.servers[s] =
                [ClientDidChange(@, t, W.tabs[t].text, @.version_counter)
                    EXCEPT !.version_counter = @ + 1]]

\* ------------------------------------------------- module-level functions
TabNew ==
    [status |-> "unopened",    \* "unopened", "open" or "closed" (destroyed)
     langserver |-> None,      \* the LangServer its events are bound to
     said |-> "none",          \* what get_lang_server logged for it
     text |-> 0,               \* the content of its text widget, one of Texts
     completions |-> <<>>]     \* <<AutoCompletionResponse>> events it got

\* outcome: "not_configured" (the filetype has no langserver command),
\* "cannot_start" (Popen raises) or "ok".  early: the new process has exited
\* before the first write.  d: as in _run_stuff_once.
\* The rest of get_lang_server once Popen has returned a process.
StartLangServer(W, k, early, d) ==
    LET s == Len(W.servers) + 1
        W1 == [W EXCEPT
                 !.servers = Append(@, LangServerNew(k)),
                 !.procs = Append(@, IF early
                                     THEN ProcessNew("exited", CHOOSE c \in ExitCodes : TRUE)
                                     ELSE ProcessNew("running", NoVal)),
                 !.after = Append(@, "none"),
                 !.log = Append(@, <<>>),
                 !.said = "started"]
        W2 == run_stuff(W1, s, 1, d)
    IN  IF W2.ret = "raise"
        THEN [W2 EXCEPT !.got = NoVal]
        ELSE [W2 EXCEPT !.langservers[k] = s, !.got = s]

\* A faulty variant: the registry is not looked up.
get_lang_server_no_lookup(W, k, outcome, early, d) ==
    IF outcome = "not_configured"
    THEN [W EXCEPT !.got = None, !.said = "not_configured"]
    ELSE IF outcome = "cannot_start"
    THEN [W EXCEPT !.got = None, !.said = "cannot_start"]
    ELSE StartLangServer(W, k, early, d)

\* A faulty variant: the failure of Popen is logged and the LangServer is made anyway.
get_lang_server_no_return(W, k, outcome, early, d) ==
    IF outcome = "not_configured"
    THEN [W EXCEPT !.got = None, !.said = "not_configured"]
    ELSE IF W.langservers[k] # None
    THEN [W EXCEPT !.got = W.langservers[k]]
    ELSE IF outcome = "cannot_start"
    THEN [StartLangServer(W, k, early, d) EXCEPT !.said = "cannot_start"]
    ELSE StartLangServer(W, k, early, d)

get_lang_server(W, k, outcome, early, d) ==
    IF outcome = "not_configured"
    THEN [W EXCEPT !.got = None, !.said = "not_configured"]
    ELSE IF W.langservers[k] # None
    THEN [W EXCEPT !.got = W.langservers[k]]
    ELSE IF outcome = "cannot_start"
    THEN [W EXCEPT !.got = None, !.said = "cannot_start"]
    ELSE StartLangServer(W, k, early, d)

on_new_tab(W, t, k, outcome, early, d) ==
    LET W1 == get_lang_server([W EXCEPT !.tabs[t].status = "open"],
                              k, outcome, early, d)
        W2 == [W1 EXCEPT !.tabs[t].said = W1.said]
    IN  IF W2.got \in {NoVal, None}
        THEN W2
        ELSE open_tab([W2 EXCEPT !.tabs[t].langserver = W2.got], W2.got, t)

\* get_lang_server constructs a LangServer exactly when these hold.
Spawns(k, outcome) == outcome = "ok" /\ langservers[k] = None

\* ------------------------------------------------- the Executor (run plugin)
\* An item of Executor._queue: (message_type, text).  n is the number in the
\* text: which chunk of output, or the exit status.
Item(type, text, n) == [type |-> type, text |-> text, n |-> n]

StatusItem(status) ==
    IF status = 0
    THEN Item("info", "The process completed successfully.", NoVal)
    ELSE Item("error", "The process failed with status", status)
KilledItem == Item("error", "Killed.", NoVal)

ExecutorNew ==
    [shell_process |-> "None",   \* "None", "running" or "exited"
     status |-> NoVal,           \* the exit status of the shell process
     written |-> 0,              \* chunks of output the command has written
     read |-> 0,                 \* chunks of them that the thread has read
     queue |-> <<>>,             \* _queue, maxsize 1
     timeout_id |-> FALSE,       \* the after(50, ...) timer of the poll is pending
     started |-> FALSE,
     thread |-> "none",          \* where _thread_target is; "done" when it has returned
     stop |-> "no",              \* where stop() is; "returned", "raised" at its end
     killed |-> FALSE,           \* history: stop() killed the running shell process
     queued |-> <<>>,            \* history: every item the thread has put
     displayed |-> <<>>]         \* the items inserted into the text widget, in order

\* queue.put of the thread: possible when the queue is not full.
ThreadPut(E, item, next) ==
    [E EXCEPT !.queue = Append(@, item), !.queued = Append(@, item), !.thread = next]

\* One step of _thread_target.  ok: whether Popen succeeds.
_thread_target(E, ok) ==
    CASE E.thread = "put_command" -> ThreadPut(E, Item("info", "command", NoVal), "popen")
      [] E.thread = "popen" ->
            IF ok THEN [E EXCEPT !.shell_process = "running", !.thread = "read1"]
            ELSE [E EXCEPT !.thread = "put_oserror"]
      [] E.thread = "put_oserror" -> ThreadPut(E, Item("error", "OSError", NoVal), "done")
      [] E.thread = "read1" ->
            IF E.read < E.written
            THEN [E EXCEPT !.read = @ + 1, !.thread = "put_output"]
            ELSE [E EXCEPT !.thread = "wait"]
      [] E.thread = "put_output" -> ThreadPut(E, Item("output", "output", E.read), "read1")
      [] E.thread = "wait" -> [E EXCEPT !.thread = "put_status"]
      [] E.thread = "put_status" -> ThreadPut(E, StatusItem(E.status), "put_end")
      [] OTHER -> ThreadPut(E, Item("end", "", NoVal), "done")

\* The thread can take its next step: a put needs room in the queue, read1
\* returns when there is output or the pipe is closed, wait when the process
\* has exited.
ThreadCanStep(E) ==
    CASE E.thread \in {"none", "done"} -> FALSE
      [] E.thread \in {"put_command", "put_oserror", "put_output", "put_status", "put_end"} ->
            E.queue = <<>>
      [] E.thread = "read1" -> E.read < E.written \/ E.shell_process = "exited"
      [] E.thread = "wait" -> E.shell_process = "exited"
      [] OTHER -> TRUE

_handle_queued_item(E, item) ==
    IF item.type = "end" THEN E ELSE [E EXCEPT !.displayed = Append(@, item)]

\* One iteration of the loop of _poll_queue_and_put_to_textwidget, then the
\* timer is set again.
_poll_queue_and_put_to_textwidget(E) ==
    IF E.queue = <<>>
    THEN [E EXCEPT !.timeout_id = TRUE]
    ELSE [_handle_queued_item([E EXCEPT !.queue = Tail(@)], Head(E.queue))
            EXCEPT !.timeout_id = TRUE]

run(E) == [E EXCEPT !.thread = "put_command", !.timeout_id = TRUE, !.started = TRUE]

\* stop() up to its loop.  gone: psutil finds no process with the pid of the
\* shell (it has exited and was reaped).
stop(E, quitting, gone) ==
    LET E1 == [E EXCEPT !.timeout_id = FALSE]
    IN  IF E1.shell_process = "None"
        THEN [E1 EXCEPT !.stop = "returned"]
        ELSE IF E1.shell_process = "exited" /\ gone
        THEN [E1 EXCEPT !.stop = "returned"]
        ELSE LET E2 == IF E1.shell_process = "running"
                       THEN [E1 EXCEPT !.shell_process = "exited",
                                       !.status = -SIGKILL,
                                       !.killed = TRUE]
                       ELSE E1
             IN  IF quitting THEN [E2 EXCEPT !.stop = "returned"]
                 ELSE IF E2.thread = "done" THEN [E2 EXCEPT !.stop = "raised"]
                 ELSE [E2 EXCEPT !.stop = "consume"]

\* A faulty variant: the loop of stop() empties the queue and shows nothing.
StopConsumeDiscards(E) ==
    LET item == Head(E.queue)
        E1 == [E EXCEPT !.queue = Tail(@)]
    IN  IF item.type = "end" THEN [E1 EXCEPT !.stop = "join"] ELSE E1

\* One iteration of the loop of stop(): "Consume queue until the thread stops".
StopConsume(E) ==
    LET item == Head(E.queue)
        E1 == [E EXCEPT !.queue = Tail(@)]
        E2 == IF item # StatusItem(-SIGKILL) THEN _handle_queued_item(E1, item) ELSE E1
    IN  IF item.type = "end" THEN [E2 EXCEPT !.stop = "join"] ELSE E2

\* The end of stop(): the thread is joined, "Killed." is shown.
StopJoin(E) == [_handle_queued_item(E, KilledItem) EXCEPT !.stop = "returned"]

RunExitCodes == {0, 1}    \* exit statuses of a command that ends by itself

\* ------------------------------------------------- the NoTerminalRunner
\* self.executor is the variable executor.  The threads and the shell processes
\* of the Executors that run_command has replaced live on, so they are kept.
\* runner.pc is "idle" (in the main loop), "stop" (in the self.executor.stop()
\* of run_command) or "update" (in the update() of Executor.run);
\* runner.replaced holds the Executors that self.executor was before, oldest
\* first.
\* self.executor is None: no Executor was made yet.
ExecutorIsNone(R, E) == R.pc = "idle" /\ E.thread = "none"

\* The end of run_command: a new Executor takes the place of E, and its run()
\* goes up to self._textwidget.update().
NewExecutor(R, E) ==
    [runner |-> [R EXCEPT !.pc = "update",
                          !.replaced = IF ExecutorIsNone(R, E) THEN @ ELSE Append(@, E)],
     executor |-> ExecutorNew]

\* run_command up to the point where it returns, raises, or blocks in the
\* loop of stop().  gone: as in stop.
run_command(R, E, gone) ==
    IF ExecutorIsNone(R, E)
    THEN NewExecutor(R, E)
    ELSE IF ~E.started
    THEN [runner |-> R, executor |-> E]
    ELSE LET E1 == stop(E, FALSE, gone)
         IN  CASE E1.stop = "returned" -> NewExecutor(R, E1)
               [] E1.stop = "raised" -> [runner |-> R, executor |-> E1]
               [] OTHER -> [runner |-> [R EXCEPT !.pc = "stop"], executor |-> E1]

\* ------------------------------------------------- completion items
\* Strings are sequences of characters.  WordChars are characters that the
\* regular expression \w matches; the space is one that it does not match and
\* that str.strip() removes.
WordChars == {"a", "b"}
Chars == WordChars \cup {" "}
Strings(S, n) == UNION {[1 .. k -> S] : k \in 0 .. n}

\* Python's "x or y" on strings: None and '' are both false.
Or(x, y) == IF x # <<>> THEN x ELSE y

\* text[n:]
SliceFrom(text, n) == IF n >= Len(text) THEN <<>> ELSE SubSeq(text, n + 1, Len(text))

\* text.startswith(start)
startswith(text, start) ==
    /\ Len(start) <= Len(text)
    /\ SubSeq(text, 1, Len(start)) = start

RECURSIVE lstrip(_)
lstrip(text) ==
    IF text # <<>> /\ Head(text) = " " THEN lstrip(Tail(text)) ELSE text

RECURSIVE rstrip(_)
rstrip(text) ==
    IF text # <<>> /\ text[Len(text)] = " "
    THEN rstrip(SubSeq(text, 1, Len(text) - 1))
    ELSE text

\* text.strip()
strip(text) == rstrip(lstrip(text))

\* len(re.fullmatch(r'.*?(\w*)', before_cursor).group(1)): the lazy .*? leaves
\* to the group the longest run of word characters that ends the text.
RECURSIVE prefix_len(_)
prefix_len(before_cursor) ==
    IF before_cursor # <<>> /\ before_cursor[Len(before_cursor)] \in WordChars
    THEN 1 + prefix_len(SubSeq(before_cursor, 1, Len(before_cursor) - 1))
    ELSE 0

\* A lsp.CompletionItem; a field that the langserver left out is <<>>.
CompletionItem(label, insertText, filterText, documentation) ==
    [label |-> label, insertText |-> insertText, filterText |-> filterText,
     documentation |-> documentation]

\* A faulty variant: the label is compared and shown with its whitespace.
get_completion_item_doc_unstripped(item) ==
    IF item.documentation # <<>>
    THEN IF startswith(item.documentation, item.label)
         THEN item.documentation
         ELSE item.label \o <<"\n", "\n">> \o item.documentation
    ELSE item.label

get_completion_item_doc(item) ==
    IF item.documentation # <<>>
    THEN IF startswith(item.documentation, strip(item.label))
         THEN item.documentation
         ELSE strip(item.label) \o <<"\n", "\n">> \o item.documentation
    ELSE item.label

\* One dict of info_dict['completions']; replace_start is kept as the number
\* of characters before the cursor that are replaced.
completion_dict(item, before_cursor) ==
    [display_text |-> item.label,
     replace_start |-> prefix_len(before_cursor),
     replace_text |-> Or(item.insertText, item.label),
     filter_text |-> SliceFrom(Or(item.filterText, Or(item.insertText, item.label)),
                               prefix_len(before_cursor)),
     documentation |-> get_completion_item_doc(item)]

\* A completion item that has arrived and the line before the cursor.
CandidateNew(item, before_cursor) ==
    [item |-> item, before_cursor |-> before_cursor, handled |-> FALSE,
     completion |-> completion_dict(CompletionItem(<<>>, <<>>, <<>>, <<>>), <<>>)]

\* ------------------------------------------------- SubprocessStdIO, fcntl is None
\* The transport on a platform without fcntl: a thread reads the stdout of the
\* process byte by byte into a queue, read() empties the queue.
SubprocessStdIOThreaded ==
    [worker_thread |-> "alive",  \* started by __init__; "dead" when its target has ended
     read_queue |-> <<>>,
     open |-> TRUE,              \* the process has its stdout open
     written |-> 0,              \* bytes the process has written to its stdout
     pipe |-> <<>>,              \* the bytes of them that nobody has read from the pipe
     reading |-> FALSE,          \* read() is between its loop and its test of is_alive()
     buf |-> <<>>,
     enqueued |-> <<>>,          \* history: every byte the thread has put
     results |-> <<>>]           \* history: what each read() returned

\* _stdout_to_read_queue reads from the name "file".  The module defines no
\* such name and Python 3 has no such builtin: evaluating it raises NameError.
file_is_defined == FALSE

\* The thread is not blocked: file.read(1) returns when there is a byte or the
\* end of the file.
ReaderCanStep(IO) ==
    /\ IO.worker_thread = "alive"
    /\ ~file_is_defined \/ IO.pipe # <<>> \/ ~IO.open

\* One iteration of the loop of _stdout_to_read_queue.
_stdout_to_read_queue(IO) ==
    IF ~file_is_defined
    THEN [IO EXCEPT !.worker_thread = "dead"]       \* NameError
    ELSE IF IO.pipe = <<>>
    THEN [IO EXCEPT !.worker_thread = "dead"]       \* break
    ELSE [IO EXCEPT !.pipe = Tail(@),
                    !.read_queue = Append(@, Head(IO.pipe)),
                    !.enqueued = Append(@, Head(IO.pipe))]

\* read(), its loop: everything in the queue goes to buf.
ReadLoop(IO) ==
    [IO EXCEPT !.buf = IO.read_queue, !.read_queue = <<>>, !.reading = TRUE]

\* read(), after the loop: None, b'' or the bytes.
ReadReturn(IO) ==
    LET result == IF IO.worker_thread = "alive" /\ IO.buf = <<>>
                  THEN "None"
                  ELSE IF IO.buf = <<>> THEN "closed" ELSE "data"
    IN  [IO EXCEPT !.reading = FALSE, !.buf = <<>>,
                   !.results = Append(@, [result |-> result, bytes |-> IO.buf])]

\* ------------------------------------------------- LocalhostSocketIO
\* The transport of a langserver that listens on a port.  A chunk is the
\* number of the write() call that passed it; the stop sentinel is None.
LocalhostSocketIONew ==
    [worker_thread |-> "connect", \* where _send_queue_to_socket is: "connect", "sleep",
                                  \* "get", "sendall"; "done" after the sentinel,
                                  \* "raised" after an exception of sendall
     send_queue |-> <<>>,
     bytez |-> None,              \* the chunk that the thread has taken from the queue
     listening |-> FALSE,         \* the langserver accepts connections on the port
     connected |-> FALSE,         \* connect() has returned
     peer_closed |-> FALSE,       \* the langserver has closed the connection
     closed |-> FALSE,            \* read() has returned b''
     written |-> <<>>,            \* history: the chunks passed to write()
     early |-> 0,                 \* history: how many of them before connect() returned
     stopped_at |-> NoVal,        \* history: how many of them before the sentinel was put
     sent |-> <<>>]               \* history: the chunks passed to sendall() that were sent

WorkerIsAlive(IO) == IO.worker_thread \notin {"done", "raised"}

\* The thread is not blocked: get() waits for an item in the queue.
WorkerCanStep(IO) ==
    /\ WorkerIsAlive(IO)
    /\ IO.worker_thread = "get" => IO.send_queue # <<>>

\* One step of _send_queue_to_socket.  fails: sendall raises, which it can
\* when the langserver has closed the connection.
_send_queue_to_socket(IO, fails) ==
    CASE IO.worker_thread = "connect" ->
            IF IO.listening
            THEN [IO EXCEPT !.connected = TRUE, !.worker_thread = "get"]
            ELSE [IO EXCEPT !.worker_thread = "sleep"]    \* ConnectionRefusedError
      [] IO.worker_thread = "sleep" -> [IO EXCEPT !.worker_thread = "connect"]
      [] IO.worker_thread = "get" ->
            IF Head(IO.send_queue) = None
            THEN [IO EXCEPT !.send_queue = Tail(@), !.worker_thread = "done"]
            ELSE [IO EXCEPT !.send_queue = Tail(@), !.bytez = Head(IO.send_queue),
                            !.worker_thread = "sendall"]
      [] OTHER ->
            IF fails /\ IO.peer_closed
            THEN [IO EXCEPT !.worker_thread = "raised"]
            ELSE [IO EXCEPT !.sent = Append(@, IO.bytez), !.worker_thread = "get"]

\* A faulty variant: write() sends the chunk itself once the socket is connected.
LocalhostSocketIOWriteDirect(IO, bytez) ==
    IF IO.connected
    THEN [IO EXCEPT !.written = Append(@, bytez), !.sent = Append(@, bytez)]
    ELSE [IO EXCEPT !.send_queue = Append(@, bytez),
                    !.written = Append(@, bytez),
                    !.early = @ + 1]

\* write()
LocalhostSocketIOWrite(IO, bytez) ==
    [IO EXCEPT !.send_queue = Append(@, bytez),
               !.written = Append(@, bytez),
               !.early = IF IO.connected THEN @ ELSE @ + 1]

\* read(): None while the socket is not connected or nothing has come, b''
\* when the langserver has closed the connection.
LocalhostSocketIORead(IO) ==
    IF ~IO.connected \/ ~IO.peer_closed
    THEN IO
    ELSE IF WorkerIsAlive(IO)
    THEN [IO EXCEPT !.closed = TRUE,
                    !.send_queue = Append(@, None),
                    !.stopped_at = Len(IO.written)]
    ELSE [IO EXCEPT !.closed = TRUE]

\* ------------------------------------------------- actions
Idle ==
    /\ langservers = [k \in Keys |-> None]
    /\ servers = <<>>
    /\ procs = <<>>
    /\ after = <<>>
    /\ log = <<>>
    /\ tabs = [t \in Tabs |-> TabNew]
    /\ executor = ExecutorNew
    /\ stdio = SubprocessStdIOThreaded
    /\ dispatch = [dispatched |-> <<>>, exceptions |-> <<>>]
    /\ sockio = LocalhostSocketIONew
    /\ runner = [pc |-> "idle", replaced |-> <<>>]

Init ==
    /\ Idle
    /\ candidate = CandidateNew(CompletionItem(<<>>, <<>>, <<>>, <<>>), <<>>)

\* The user opens a file: <<NewTab>>.  Tabs are interchangeable, so they are
\* opened in the order of their numbers.
NewTab(t) ==
    /\ tabs[t].status = "unopened"
    /\ \A u \in 1 .. t - 1 : tabs[u].status # "unopened"
    /\ \E k \in Keys, outcome \in {"not_configured", "cannot_start", "ok"},
          early \in BOOLEAN, d \in Races :
          /\ Spawns(k, outcome) => Len(servers) < MaxSessions
          /\ Commit(on_new_tab(World, t, k, outcome, early, d))

\* The user closes a tab that on_new_tab bound to a langserver: <Destroy>.
DestroyTab(t) ==
    /\ tabs[t].status = "open"
    /\ tabs[t].langserver # None
    /\ Commit(close_tab([World EXCEPT !.tabs[t].status = "closed"],
                        tabs[t].langserver, t))

\* The user edits the text of a tab bound to a langserver: <<ContentChanged>>.
ContentChanged(t) ==
    /\ tabs[t].status = "open"
    /\ tabs[t].langserver # None
    /\ servers[tabs[t].langserver].state = "Normal"
            => servers[tabs[t].langserver].version_counter < MaxEdits
    /\ \E x \in Texts \ {tabs[t].text} :
          Commit(send_change_events([World EXCEPT !.tabs[t].text = x],
                                    tabs[t].langserver, t))

\* The user asks for completions in a tab: <<AutoCompletionRequest>>.
AutoCompletionRequest(t) ==
    /\ tabs[t].status = "open"
    /\ tabs[t].langserver # None
    /\ servers[tabs[t].langserver].state = "Normal"
            => servers[tabs[t].langserver].next_id <= MaxRequests
    /\ Commit(request_completions(World, tabs[t].langserver, t))

\* The after(50, self.run_stuff) timer of a LangServer fires.
Tick(s) ==
    /\ after[s] = "run_stuff"
    /\ \E n \in 1 .. MaxPipe, d \in Races :
          /\ n <= Len(procs[s].stdout) \/ n = 1
          /\ Commit(run_stuff(World, s, n, d))

\* The after(500, self._ensure_langserver_process_quits_soon) timer fires.
QuitSoonPoll(s) ==
    /\ after[s] = "quit_soon"
    /\ Commit(_ensure_langserver_process_quits_soon(
                  [World EXCEPT !.after[s] = "none"], s))

\* The langserver answers a request it has read from its stdin.
ServerRespond(s) ==
    /\ procs[s].status = "running"
    /\ Len(procs[s].stdout) < MaxPipe
    /\ \E j \in 1 .. Len(procs[s].stdin) :
          LET i == procs[s].stdin[j].id
          IN  /\ i # NoVal
              /\ i \notin procs[s].answered
              /\ Commit([World EXCEPT !.procs[s].stdout = Append(@, Response(i)),
                                      !.procs[s].answered = @ \cup {i}])

\* The langserver process exits (by itself, or killed by somebody else).
ServerExit(s) ==
    /\ procs[s].status # "exited"
    /\ \E c \in ExitCodes : Commit(ProcessExit(World, s, c))

\* The langserver sends again the response to a completion request it has
\* answered.
ServerRespondAgain(s) ==
    /\ procs[s].status = "running"
    /\ Len(procs[s].stdout) < MaxPipe
    /\ \E j \in 1 .. Len(procs[s].stdin) :
          LET m == procs[s].stdin[j]
          IN  /\ m.method = "textDocument/completion"
              /\ m.id \in procs[s].answered
              /\ Commit([World EXCEPT !.procs[s].stdout = Append(@, Response(m.id))])

\* The langserver sends a notification.
ServerNotify(s) ==
    /\ procs[s].status = "running"
    /\ Len(procs[s].stdout) < MaxPipe
    /\ Commit([World EXCEPT !.procs[s].stdout = Append(@, Notification)])

\* Spec: the life of the langservers.  The user opens and closes tabs, any
\* number of langservers start, shut down and die.
Next ==
    \/ \E t \in Tabs : NewTab(t)
    \/ \E t \in Tabs : DestroyTab(t)
    \/ \E s \in DOMAIN servers : Tick(s)
    \/ \E s \in DOMAIN servers : QuitSoonPoll(s)
    \/ \E s \in DOMAIN servers : ServerRespond(s)
    \/ \E s \in DOMAIN servers : ServerExit(s)

Spec == Init /\ [][Next]_vars

\* CompletionSpec: the whole life of the first langserver.  The user also asks
\* for completions; no second langserver is started, and every tab that is
\* opened is one that gets bound to the langserver.
CompletionNext ==
    \/ \E t \in Tabs : NewTab(t) /\ Len(servers') <= 1 /\ tabs'[t].langserver # None
    \/ \E t \in Tabs : DestroyTab(t)
    \/ \E t \in Tabs : AutoCompletionRequest(t)
    \/ \E s \in DOMAIN servers : Tick(s)
    \/ \E s \in DOMAIN servers : QuitSoonPoll(s)
    \/ \E s \in DOMAIN servers : ServerRespond(s)
    \/ \E s \in DOMAIN servers : ServerExit(s)

CompletionSpec == Init /\ [][CompletionNext]_vars

\* RepeatSpec: as CompletionSpec, with a langserver that also repeats its
\* responses to completion requests; the user asks at most MaxRepeated times.
RepeatNext ==
    \/ \E t \in Tabs : NewTab(t) /\ Len(servers') <= 1 /\ tabs'[t].langserver # None
    \/ \E t \in Tabs : DestroyTab(t)
    \/ \E t \in Tabs :
          AutoCompletionRequest(t) /\ servers'[tabs[t].langserver].next_id <= MaxRepeated + 1
    \/ \E s \in DOMAIN servers : Tick(s)
    \/ \E s \in DOMAIN servers : QuitSoonPoll(s)
    \/ \E s \in DOMAIN servers : ServerRespond(s)
    \/ \E s \in DOMAIN servers : ServerRespondAgain(s)
    \/ \E s \in DOMAIN servers : ServerExit(s)

RepeatSpec == Init /\ [][RepeatNext]_vars

\* NoiseSpec: the whole life of the first langserver, which also sends
\* notifications that the plugin has no handler for.
NoiseNext ==
    \/ \E t \in Tabs : NewTab(t) /\ Len(servers') <= 1 /\ tabs'[t].langserver # None
    \/ \E t \in Tabs : DestroyTab(t)
    \/ \E s \in DOMAIN servers : Tick(s)
    \/ \E s \in DOMAIN servers : QuitSoonPoll(s)
    \/ \E s \in DOMAIN servers : ServerRespond(s)
    \/ \E s \in DOMAIN servers : ServerNotify(s)
    \/ \E s \in DOMAIN servers : ServerExit(s)

NoiseSpec == Init /\ [][NoiseNext]_vars

\* The langserver writes to its stdout: the answer to a request, a
\* notification, or bytes that cannot be decoded.
ServerSends(s) ==
    /\ procs[s].status = "running"
    /\ Len(procs[s].stdout) < MaxBatch
    /\ \/ \E j \in 1 .. Len(procs[s].stdin) :
             LET i == procs[s].stdin[j].id
             IN  /\ i # NoVal
                 /\ i \notin procs[s].answered
                 /\ Commit([World EXCEPT !.procs[s].stdout = Append(@, Response(i)),
                                         !.procs[s].answered = @ \cup {i}])
       \/ \E m \in {Notification, Garbage} :
             Commit([World EXCEPT !.procs[s].stdout = Append(@, m)])

\* The timer of run_stuff fires; the read returns up to MaxBatch messages.
TickBatch(s) ==
    /\ after[s] = "run_stuff"
    /\ \E n \in 1 .. MaxBatch, d \in Races :
          /\ n <= Len(procs[s].stdout) \/ n = 1
          /\ Commit(run_stuff(World, s, n, d))

\* BatchSpec: the whole life of the first langserver, whose stdout holds up to
\* MaxBatch messages at a time, some of them not understood by the plugin or
\* by the client.
BatchNext ==
    \/ \E t \in Tabs : NewTab(t) /\ Len(servers') <= 1 /\ tabs'[t].langserver # None
    \/ \E t \in Tabs : DestroyTab(t)
    \/ \E s \in DOMAIN servers : TickBatch(s)
    \/ \E s \in DOMAIN servers : QuitSoonPoll(s)
    \/ \E s \in DOMAIN servers : ServerSends(s)
    \/ \E s \in DOMAIN servers : ServerExit(s)

BatchSpec == Init /\ [][BatchNext]_vars

\* The actions of the run plugin leave the langservers alone.
ExecutorStep(E) ==
    /\ executor' = E
    /\ UNCHANGED <<langservers, servers, procs, after, tabs, log, candidate, stdio,
                   dispatch, sockio, runner>>

\* The user runs a command: NoTerminalRunner.run_command makes an Executor.
RunCommand ==
    /\ executor.thread = "none"
    /\ ExecutorStep(run(executor))

ThreadStep ==
    /\ ThreadCanStep(executor)
    /\ \E ok \in BOOLEAN : ExecutorStep(_thread_target(executor, ok))

\* The command writes a chunk of output to its stdout.
CommandWrites ==
    /\ executor.shell_process = "running"
    /\ executor.written < MaxOutput
    /\ ExecutorStep([executor EXCEPT !.written = @ + 1])

\* The command ends by itself.
CommandExits ==
    /\ executor.shell_process = "running"
    /\ \E c \in RunExitCodes :
          ExecutorStep([executor EXCEPT !.shell_process = "exited", !.status = c])

\* The after(50, self._poll_queue_and_put_to_textwidget) timer fires.
PollQueue ==
    /\ executor.timeout_id
    /\ ExecutorStep(_poll_queue_and_put_to_textwidget(executor))

\* The user presses the stop button, runs another command, or quits.
Stop ==
    /\ executor.started
    /\ executor.stop = "no"
    /\ \E quitting, gone \in BOOLEAN : ExecutorStep(stop(executor, quitting, gone))

\* stop() gets the next item of the queue (it blocks while the queue is empty).
StopConsumes ==
    /\ executor.stop = "consume"
    /\ executor.queue # <<>>
    /\ ExecutorStep(StopConsume(executor))

\* self._thread.join() returns.
StopJoins ==
    /\ executor.stop = "join"
    /\ executor.thread = "done"
    /\ ExecutorStep(StopJoin(executor))

\* RunSpec: one command run by an Executor, and stopped at any moment.
RunNext ==
    \/ RunCommand
    \/ ThreadStep
    \/ CommandWrites
    \/ CommandExits
    \/ PollQueue
    \/ Stop
    \/ StopConsumes
    \/ StopJoins

RunSpec == Init /\ [][RunNext]_vars

\* The actions of the runner change the runner and its Executor.
RunnerStep(r) ==
    /\ runner' = r.runner
    /\ executor' = r.executor
    /\ UNCHANGED <<langservers, servers, procs, after, tabs, log, candidate, stdio,
                   dispatch, sockio>>

\* The chunks of output that the commands of the runner have written so far,
\* all Executors taken together.
RECURSIVE Written(_)
Written(es) == IF es = <<>> THEN 0 ELSE Head(es).written + Written(Tail(es))

\* The user runs a command (F5): from the main loop, or from the update() of
\* Executor.run, which "causes key bindings to execute".
RunCommandCalled ==
    /\ runner.pc \in {"idle", "update"}
    /\ executor.stop \notin {"consume", "join"}
    /\ Len(runner.replaced) < MaxRuns - 1 \/ ExecutorIsNone(runner, executor)
            \/ ~executor.started
    /\ \E gone \in BOOLEAN : RunnerStep(run_command(runner, executor, gone))

\* The stop() that run_command called returns after its loop and the join.
RunCommandResumes ==
    /\ runner.pc = "stop"
    /\ executor.stop = "returned"
    /\ RunnerStep(NewExecutor(runner, executor))

\* update() returns and Executor.run goes on: the thread and the poll start.
RunStarts ==
    /\ runner.pc = "update"
    /\ RunnerStep([runner |-> [runner EXCEPT !.pc = "idle"], executor |-> run(executor)])

\* The thread and the shell process of an Executor that was replaced.
ReplacedThreadStep(i) ==
    /\ ThreadCanStep(runner.replaced[i])
    /\ \E ok \in BOOLEAN :
          RunnerStep([runner |-> [runner EXCEPT !.replaced[i] = _thread_target(@, ok)],
                      executor |-> executor])

ReplacedCommandWrites(i) ==
    /\ runner.replaced[i].shell_process = "running"
    /\ executor.written + Written(runner.replaced) < MaxOutput
    /\ RunnerStep([runner |-> [runner EXCEPT !.replaced[i].written = @ + 1],
                   executor |-> executor])

ReplacedCommandExits(i) ==
    /\ runner.replaced[i].shell_process = "running"
    /\ \E c \in RunExitCodes :
          RunnerStep([runner |-> [runner EXCEPT !.replaced[i].shell_process = "exited",
                                                !.replaced[i].status = c],
                      executor |-> executor])

\* RerunSpec: the user runs commands again and again, and stops them.  The
\* commands write at most MaxOutput chunks of output between them.
RerunNext ==
    \/ RunCommandCalled
    \/ RunCommandResumes
    \/ RunStarts
    \/ Stop /\ runner.pc = "idle"
    \/ ThreadStep
    \/ CommandWrites /\ executor.written + Written(runner.replaced) < MaxOutput
    \/ CommandExits
    \/ PollQueue
    \/ StopConsumes
    \/ StopJoins
    \/ \E i \in DOMAIN runner.replaced : ReplacedThreadStep(i)
    \/ \E i \in DOMAIN runner.replaced : ReplacedCommandWrites(i)
    \/ \E i \in DOMAIN runner.replaced : ReplacedCommandExits(i)

RerunSpec == Init /\ [][RerunNext]_vars

\* The Completion branch of _handle_lsp_event makes the dict of one item.
HandleCompletionItem ==
    /\ ~candidate.handled
    /\ candidate' = [candidate EXCEPT
            !.completion = completion_dict(candidate.item, candidate.before_cursor),
            !.handled = TRUE]
    /\ UNCHANGED <<langservers, servers, procs, after, tabs, log, executor, stdio,
                   dispatch, sockio, runner>>

\* FilterSpec: any item with a label and any line before the cursor.
FilterInit ==
    /\ Idle
    /\ \E before_cursor \in Strings(Chars, MaxTyped),
          label \in Strings(WordChars, MaxName) \ {<<>>},
          insertText \in Strings(WordChars, MaxName),
          filterText \in Strings(WordChars, MaxName) :
            candidate = CandidateNew(
                CompletionItem(label, insertText, filterText, <<>>), before_cursor)

FilterSpec == FilterInit /\ [][HandleCompletionItem]_vars

\* DocSpec: any item with a label, with or without documentation.
DocInit ==
    /\ Idle
    /\ \E label \in Strings(Chars, MaxName) \ {<<>>},
          documentation \in Strings(Chars, MaxDoc) :
            candidate = CandidateNew(
                CompletionItem(label, <<>>, <<>>, documentation), <<>>)

DocSpec == DocInit /\ [][HandleCompletionItem]_vars

\* The actions of the threaded transport leave everything else alone.
StdIOStep(IO) ==
    /\ stdio' = IO
    /\ UNCHANGED <<langservers, servers, procs, after, tabs, log, executor, candidate,
                   dispatch, sockio, runner>>

\* The langserver writes a byte to its stdout.
StdoutWrite ==
    /\ stdio.open
    /\ stdio.written < MaxBytes
    /\ StdIOStep([stdio EXCEPT !.written = @ + 1, !.pipe = Append(@, stdio.written + 1)])

\* The langserver closes its stdout (or exits).
StdoutClose ==
    /\ stdio.open
    /\ StdIOStep([stdio EXCEPT !.open = FALSE])

ReaderStep ==
    /\ ReaderCanStep(stdio)
    /\ StdIOStep(_stdout_to_read_queue(stdio))

\* _run_stuff_once calls read().
ReadBegins ==
    /\ ~stdio.reading
    /\ Len(stdio.results) < MaxReads
    /\ StdIOStep(ReadLoop(stdio))

ReadEnds ==
    /\ stdio.reading
    /\ StdIOStep(ReadReturn(stdio))

\* FallbackSpec: the thread of a SubprocessStdIO, the process that writes to
\* its stdout and the calls of read(), in any order.
FallbackNext ==
    \/ StdoutWrite
    \/ StdoutClose
    \/ ReaderStep
    \/ ReadBegins
    \/ ReadEnds

FallbackSpec == Init /\ [][FallbackNext]_vars

\* The actions of the socket transport leave everything else alone.
SocketStep(IO) ==
    /\ sockio' = IO
    /\ UNCHANGED <<langservers, servers, procs, after, tabs, log, executor, candidate,
                   stdio, dispatch, runner>>

\* The langserver starts to listen on its port.
PeerListens ==
    /\ ~sockio.listening
    /\ SocketStep([sockio EXCEPT !.listening = TRUE])

\* The langserver closes the connection (or exits).
PeerCloses ==
    /\ sockio.connected
    /\ ~sockio.peer_closed
    /\ SocketStep([sockio EXCEPT !.peer_closed = TRUE])

SocketWorkerStep ==
    /\ WorkerCanStep(sockio)
    /\ \E fails \in BOOLEAN : SocketStep(_send_queue_to_socket(sockio, fails))

\* A tick calls write() with what the client has queued; no tick runs after
\* the one that read b''.
SocketWrite ==
    /\ ~sockio.closed
    /\ Len(sockio.written) < MaxChunks
    /\ SocketStep(LocalhostSocketIOWrite(sockio, Len(sockio.written) + 1))

\* The tick calls read().
SocketRead ==
    /\ ~sockio.closed
    /\ SocketStep(LocalhostSocketIORead(sockio))

\* SocketSpec: the thread of a LocalhostSocketIO, the langserver at the other
\* end and the calls of write() and read(), in any order.
SocketNext ==
    \/ PeerListens
    \/ PeerCloses
    \/ SocketWorkerStep
    \/ SocketWrite
    \/ SocketRead

SocketSpec == Init /\ [][SocketNext]_vars

\* SyncSpec: the whole life of the first langserver.  The user also edits the
\* text of the tabs; no second langserver is started.
SyncNext ==
    \/ \E t \in Tabs : NewTab(t) /\ Len(servers') <= 1
    \/ \E t \in Tabs : DestroyTab(t)
    \/ \E t \in Tabs : ContentChanged(t)
    \/ \E s \in DOMAIN servers : Tick(s)
    \/ \E s \in DOMAIN servers : QuitSoonPoll(s)
    \/ \E s \in DOMAIN servers : ServerRespond(s)
    \/ \E s \in DOMAIN servers : ServerExit(s)

SyncSpec == Init /\ [][SyncNext]_vars

\* ------------------------------------------------- vocabulary of the claims
Registered(s) == langservers[servers[s].id] = s

\* The step opens tab t (on_new_tab ran for it).
Opens(t) == tabs[t].status = "unopened" /\ tabs'[t].status = "open"

\* The step destroys tab t, which is bound to LangServer s (s.close_tab ran).
Closes(t, s) ==
    /\ tabs[t].status = "open" /\ tabs'[t].status = "closed"
    /\ tabs[t].langserver = s

\* The step edits tab t, which is bound to LangServer s (s.send_change_events ran).
Edits(t, s) ==
    /\ tabs[t].status = "open" /\ tabs'[t].text # tabs[t].text
    /\ tabs[t].langserver = s

OfMethod(seq, method) == SelectSeq(seq, LAMBDA m : m.method = method)

\* Everything LangServer s has emitted: what its process was sent, then what
\* waits in the client for the next tick.
Emitted(s) == procs[s].stdin \o servers[s].outgoing

\* ------------------------------------------------- C1
\* C1: get_lang_server returns the LangServer registered under the id when
\* there is one, and constructs a LangServer (starts a process) only when none is
\* registered under the id; the registry maps an id only to a LangServer of
\* that id, so no id ever has two registered LangServers.
C1_OneSessionPerKey ==
    [][\A t \in Tabs : Opens(t) =>
          /\ Len(servers') > Len(servers) =>
                /\ Len(servers') = Len(servers) + 1
                /\ langservers[servers'[Len(servers')].id] = None
          /\ tabs'[t].langserver # None =>
                LET s == tabs'[t].langserver
                    k == servers'[s].id
                IN  /\ langservers'[k] = s
                    /\ langservers[k] # None =>
                          s = langservers[k] /\ servers' # <<>> /\ Len(servers') = Len(servers)
          /\ \A k \in Keys : langservers'[k] # None =>
                /\ langservers'[k] \in DOMAIN servers'
                /\ servers'[langservers'[k]].id = k
      ]_vars

\* Two open tabs share one registered LangServer.
C1_Witness ==
    \E t, u \in Tabs :
        /\ t # u
        /\ tabs[t].status = "open" /\ tabs[u].status = "open"
        /\ tabs[t].langserver # None
        /\ tabs[t].langserver = tabs[u].langserver
        /\ Registered(tabs[t].langserver)

\* ------------------------------------------------- C2
\* C2: the registry entry of a LangServer goes away only in a step of that very
\* LangServer (a tab of it closed, a tick or a quit poll of it ran: its own
\* record or log changes), and is never overwritten: no step of an older
\* LangServer of the same id removes or replaces the entry of a newer one.
C2_StaleSessionSafety ==
    [][\A k \in Keys :
          LET s == langservers[k]
          IN  (s # None /\ langservers'[k] # s) =>
                  /\ langservers'[k] = None
                  /\ servers'[s] # servers[s] \/ log'[s] # log[s]
      ]_vars

\* An old LangServer asked to be removed while a newer one of the same id was
\* registered, and the newer one is still registered.
C2_Witness ==
    \E s \in DOMAIN servers :
        /\ servers[s].stale
        /\ langservers[servers[s].id] \notin {None, s}

\* ------------------------------------------------- C3
\* C3: when Popen raises, get_lang_server returns None: the tab is bound to no
\* LangServer, the registry is unchanged, no LangServer is constructed and no
\* timer is scheduled.
C3_LaunchFailure ==
    [][\A t \in Tabs : (Opens(t) /\ tabs'[t].said = "cannot_start") =>
          /\ tabs'[t].langserver = None
          /\ langservers' = langservers
          /\ servers' = servers
          /\ procs' = procs
          /\ after' = after
      ]_vars

\* A tab was opened and the langserver process could not be started.
C3_Witness ==
    \E t \in Tabs :
        /\ tabs[t].status = "open"
        /\ tabs[t].said = "cannot_start"
        /\ tabs[t].langserver = None

\* ------------------------------------------------- C4
Forward ==
    {<<"Starting", "Normal">>, <<"Normal", "ShuttingDown">>,
     <<"ShuttingDown", "Exited">>, <<"Starting", "Exited">>, <<"Normal", "Exited">>}

\* C4: the protocol state of a LangServer changes only along Starting ->
\* Normal -> ShuttingDown -> Exited, or from Starting or Normal straight to
\* Exited; so ShuttingDown never becomes Normal and Exited never changes.
C4_StateMonotonic ==
    [][\A s \in DOMAIN servers :
          servers'[s].state # servers[s].state =>
              <<servers[s].state, servers'[s].state>> \in Forward
      ]_vars

\* A LangServer went all the way to Exited and its loop still runs.
C4_Witness ==
    \E s \in DOMAIN servers :
        servers[s].state = "Exited" /\ after[s] = "run_stuff"

\* ------------------------------------------------- C5
\* C5 as stated: once the state of a LangServer is Exited, no tick of its loop
\* runs (a tick starts with a call of the transport's write).
C5_NoWriteAfterExited ==
    [][\A s \in DOMAIN servers : servers[s].state = "Exited" => ~Tick(s)]_vars

\* C5 as amended: once the state is Exited nothing more is queued, and a tick
\* still calls write: what it writes is the exit notification that the step to
\* Exited queued, once, and nothing in the ticks after that.
C5_OnlyExitAfterExited ==
    [][\A s \in DOMAIN servers :
          /\ servers'[s].state = "Exited" =>
                /\ servers'[s].outgoing \in {<<>>, <<ExitNotification>>}
                /\ Len(OfMethod(procs'[s].stdin \o servers'[s].outgoing, "exit")) <= 1
          /\ servers[s].state = "Exited" =>
                /\ \E w \in {<<>>, <<ExitNotification>>} :
                      procs'[s].stdin = procs[s].stdin \o w
                /\ Tick(s) => servers'[s].outgoing = <<>>
      ]_vars

\* The exit notification was written: by a tick that ran in state Exited.
C5_Witness ==
    \E s \in DOMAIN servers :
        /\ servers[s].state = "Exited"
        /\ OfMethod(procs[s].stdin, "exit") # <<>>

\* ------------------------------------------------- C6
\* C6: the step that takes a LangServer from Starting to Normal queues one open
\* notification per tab of tabs_opened, in the order of tabs_opened, each with
\* version 0 and the text the tab has then; none was emitted before.
C6_ReplayOpens ==
    [][\A s \in DOMAIN servers :
          (servers[s].state = "Starting" /\ servers'[s].state = "Normal") =>
              LET ts == servers[s].tabs_opened
                  opens == OfMethod(servers'[s].outgoing, "textDocument/didOpen")
              IN  /\ Len(opens) = Len(ts)
                  /\ \A i \in 1 .. Len(ts) : opens[i] = DidOpen(ts[i], tabs[ts[i]].text, 0)
                  /\ OfMethod(procs'[s].stdin, "textDocument/didOpen") = <<>>
      ]_vars

\* The replay for two tabs, the second of them edited before: initialized, then
\* the two open notifications, wait to be written.
C6_Witness ==
    \E s \in DOMAIN servers :
        /\ servers[s].state = "Normal"
        /\ Len(servers[s].outgoing) = 3
        /\ servers[s].outgoing[1] = InitializedNotification
        /\ servers[s].outgoing[2].method = "textDocument/didOpen"
        /\ servers[s].outgoing[3].method = "textDocument/didOpen"
        /\ servers[s].outgoing[2].tab # servers[s].outgoing[3].tab
        /\ servers[s].outgoing[3].text # 0

\* ------------------------------------------------- C7
\* C7: close_tab of a registered LangServer takes the tab off tabs_opened.  If
\* it was the last one: in state Normal a shutdown request is queued, the state
\* becomes ShuttingDown and the process is left alone; in another state no
\* request is queued and the process is killed.  If tabs remain, nothing is
\* queued, the state, the process and the registry entry stay.
C7_DetachLast ==
    [][\A t \in Tabs, s \in DOMAIN servers : (Closes(t, s) /\ Registered(s)) =>
          LET sv == servers[s]
              last == Remove(sv.tabs_opened, t) = <<>>
          IN  /\ servers'[s].tabs_opened = Remove(sv.tabs_opened, t)
              /\ (last /\ sv.state = "Normal") =>
                    /\ servers'[s].outgoing = Append(sv.outgoing, ShutdownRequest(sv.next_id))
                    /\ servers'[s].state = "ShuttingDown"
                    /\ procs' = procs
              /\ (last /\ sv.state # "Normal") =>
                    /\ servers'[s].outgoing = sv.outgoing
                    /\ servers'[s].state = sv.state
                    /\ procs'[s].status = "exited"
              /\ ~last =>
                    /\ servers'[s].outgoing = sv.outgoing
                    /\ servers'[s].state = sv.state
                    /\ procs' = procs
                    /\ langservers' = langservers
      ]_vars

\* One LangServer lost its last tab before it was Normal and its process was
\* killed; another lost its last tab in state Normal and waits, process running,
\* for its shutdown request to be written.
C7_Witness ==
    \E s, r \in DOMAIN servers :
        /\ servers[s].is_shutting_down_cleanly
        /\ servers[s].state = "Starting"
        /\ procs[s].exit_code = -SIGKILL
        /\ servers[r].is_shutting_down_cleanly
        /\ servers[r].state = "ShuttingDown"
        /\ procs[r].status = "running"
        /\ OfMethod(servers[r].outgoing, "shutdown") # <<>>

\* ------------------------------------------------- C8
\* C8: close_tab of a LangServer that is not the registry's entry for its id
\* changes nothing: no LangServer record (tabs_opened, state, flag, queue), not
\* the registry, no process, no timer, no log.
C8_DetachStale ==
    [][\A t \in Tabs, s \in DOMAIN servers : (Closes(t, s) /\ ~Registered(s)) =>
          /\ servers' = servers
          /\ langservers' = langservers
          /\ procs' = procs
          /\ after' = after
          /\ log' = log
      ]_vars

\* A destroyed tab is still in the tabs_opened of the LangServer it was bound
\* to: its close_tab returned early.
C8_Witness ==
    \E t \in Tabs :
        /\ tabs[t].status = "closed"
        /\ tabs[t].langserver # None
        /\ \E i \in 1 .. Len(servers[tabs[t].langserver].tabs_opened) :
              servers[tabs[t].langserver].tabs_opened[i] = t

\* ------------------------------------------------- C9
\* C9: send_change_events in a state other than Normal queues nothing and does
\* not advance the version counter: the LangServer records and the processes
\* are unchanged.
C9_ChangeIgnored ==
    [][\A t \in Tabs, s \in DOMAIN servers :
          (Edits(t, s) /\ servers[s].state # "Normal") =>
              servers' = servers /\ procs' = procs
      ]_vars

\* A tab was edited while its LangServer was Starting.
C9_Witness ==
    \E t \in Tabs :
        /\ tabs[t].langserver # None
        /\ tabs[t].text # 0
        /\ servers[tabs[t].langserver].state = "Starting"

\* ------------------------------------------------- C10
\* C10: in what a LangServer has emitted, every change notification has a
\* higher version than the change notification before it; versions are taken
\* from the counter at the call, so this is the order of the calls.
C10_ChangeVersionsIncrease ==
    \A s \in DOMAIN servers :
        LET ch == OfMethod(Emitted(s), "textDocument/didChange")
        IN  /\ \A i \in 1 .. Len(ch) - 1 : ch[i].version < ch[i + 1].version
            /\ \A i \in 1 .. Len(ch) : ch[i].version < servers[s].version_counter

\* The process was sent change notifications of two different tabs.
C10_Witness ==
    \E s \in DOMAIN servers :
        LET ch == OfMethod(procs[s].stdin, "textDocument/didChange")
        IN  \E i, j \in 1 .. Len(ch) : i < j /\ ch[i].tab # ch[j].tab

\* ------------------------------------------------- C11
\* The termination of LangServer s was handled: the supervisor has logged it.
Terminated(s) == log[s] # <<>>

\* C11 as stated: request_completions of a LangServer whose state is not
\* Normal, or whose process has died and was handled by the supervisor, queues
\* no request and adds no entry to completion_infos.
C11_NoRequestUnlessNormal ==
    [][\A t \in Tabs :
          (AutoCompletionRequest(t)
              /\ (servers[tabs[t].langserver].state # "Normal"
                     \/ Terminated(tabs[t].langserver))) =>
              servers' = servers
      ]_vars

\* ------------------------------------------------- C12
\* The ids of the requests in a sequence of messages.
RequestIds(seq) == {seq[j].id : j \in {i \in 1 .. Len(seq) : seq[i].id # NoVal}}

\* C12: a request_completions call that is accepted queues one completion
\* request whose id no earlier request of the LangServer has, and adds to
\* completion_infos one entry under that id, which was not a key before; the
\* entries that were there stay as they were.
C12_FreshRequestId ==
    [][\A t \in Tabs :
          (AutoCompletionRequest(t) /\ servers[tabs[t].langserver].state = "Normal") =>
              LET s == tabs[t].langserver
                  old == servers[s].completion_infos
                  new == servers'[s].completion_infos
                  out == servers'[s].outgoing
                  id == out[Len(out)].id
              IN  /\ out = Append(servers[s].outgoing, CompletionRequest(id, t))
                  /\ id \notin RequestIds(Emitted(s))
                  /\ id \notin DOMAIN old
                  /\ DOMAIN new = DOMAIN old \cup {id}
                  /\ new[id] = t
                  /\ \A i \in DOMAIN old : new[i] = old[i]
      ]_vars

\* Two requests are pending at once, one of each tab.
C12_Witness ==
    \E s \in DOMAIN servers :
        \E i, j \in DOMAIN servers[s].completion_infos :
            i # j /\ servers[s].completion_infos[i] # servers[s].completion_infos[j]

\* ------------------------------------------------- C13
\* C13: whenever a tab gets completion results, each of them is for a request
\* id that was a key of completion_infos with that tab as its value, the entry
\* is gone after the step, and the tab gets that one result and no tab has
\* another result for the id: a second response with the id delivers nothing.
C13_ConsumedOnce ==
    [][\A t \in Tabs : tabs'[t].completions # tabs[t].completions =>
          LET s == tabs[t].langserver
              old == tabs[t].completions
              now == tabs'[t].completions
          IN  /\ Len(now) > Len(old)
              /\ SubSeq(now, 1, Len(old)) = old
              /\ \A j \in Len(old) + 1 .. Len(now) :
                    /\ now[j] \in DOMAIN servers[s].completion_infos
                    /\ servers[s].completion_infos[now[j]] = t
                    /\ now[j] \notin DOMAIN servers'[s].completion_infos
                    /\ \A u \in Tabs : \A i \in 1 .. Len(tabs'[u].completions) :
                          (u # t \/ i # j) => tabs'[u].completions[i] # now[j]
      ]_vars

\* A tab has the result of a request, and the langserver has sent a second
\* response with the id of that request.
C13_Witness ==
    \E t \in Tabs, s \in DOMAIN servers :
        \E j \in 1 .. Len(tabs[t].completions), i \in 1 .. Len(procs[s].stdout) :
            /\ tabs[t].langserver = s
            /\ procs[s].stdout[i] = Response(tabs[t].completions[j])

\* ------------------------------------------------- C14
\* C14: once close_tab has begun the shutdown of a LangServer (its last tab
\* was closed), no tab bound to it gets a completion result any more, whatever
\* the order in which the langserver answers the requests it has.
C14_NoResultAfterShutdown ==
    [][\A t \in Tabs :
          (tabs[t].langserver # None
              /\ servers[tabs[t].langserver].is_shutting_down_cleanly) =>
              tabs'[t].completions = tabs[t].completions
      ]_vars

\* The only tab asked for completions and was closed; the langserver then
\* answered the completion request, before the shutdown request: the context
\* is gone and no tab has a result.
C14_Witness ==
    \E s \in DOMAIN servers :
        /\ servers[s].state = "ShuttingDown"
        /\ \E i \in DOMAIN servers[s].unanswered : servers[s].unanswered[i] = "shutdown"
        /\ OfMethod(procs[s].stdin, "textDocument/completion") # <<>>
        /\ servers[s].completion_infos = <<>>
        /\ \A t \in Tabs : tabs[t].completions = <<>>
        /\ \A t \in Tabs \ {1} : tabs[t].status = "unopened"

\* ------------------------------------------------- C15
\* The step is a tick of LangServer s whose write does not raise and whose read
\* returns data, the first message of the pipe at least.
TickReads(s) ==
    /\ Tick(s)
    /\ ~WriteRaises(World, s, servers[s].outgoing)
    /\ procs[s].stdout # <<>>

\* C15 as stated: a tick that gets an event of a kind without handler stops the
\* loop of the LangServer and takes it out of the registry.
C15_ViolationIsFatal ==
    [][\A s \in DOMAIN servers :
          (TickReads(s) /\ Head(procs[s].stdout) = Notification) =>
              /\ after'[s] # "run_stuff"
              /\ langservers'[servers[s].id] # s
      ]_vars

\* ------------------------------------------------- C16
\* C16 as stated: a tick whose write raises (the process is gone and there is
\* something to write) runs the supervisor: the termination is logged and the
\* LangServer is taken out of the registry.
C16_WriteErrorIsHandled ==
    [][\A s \in DOMAIN servers :
          (Tick(s) /\ WriteRaises(World, s, servers[s].outgoing)) =>
              /\ log'[s] # <<>>
              /\ langservers'[servers[s].id] # s
      ]_vars

\* ------------------------------------------------- C17
\* C17: a tick that reads from a pipe that is empty and whose other end is
\* closed gets b'', not None: the closure is handed to the supervisor and no
\* next tick is scheduled.  From then on no tick of that LangServer runs (no
\* read is made), and its termination is logged once at most.
C17_ClosureReportedOnce ==
    [][/\ \A s \in DOMAIN servers :
            /\ (/\ procs[s].stdout = <<>>
                /\ procs'[s].status # "running"
                /\ ~WriteRaises(World, s, servers[s].outgoing)
                /\ Tick(s)) =>
                    (after'[s] = "quit_soon" \/ log'[s] # <<>>)
            /\ (after[s] = "quit_soon" \/ log[s] # <<>>) =>
                    /\ ~Tick(s)
                    /\ (after'[s] = "quit_soon" \/ log'[s] # <<>>)
       /\ \A s \in DOMAIN servers' :
            /\ (after'[s] = "quit_soon" \/ log'[s] # <<>>) => after'[s] # "run_stuff"
            /\ Len(log'[s]) <= 1
      ]_vars

\* A LangServer read the answer to its initialize request, later the closure of
\* the pipe; its termination is logged and no tick is scheduled.
C17_Witness ==
    \E s \in DOMAIN servers :
        /\ servers[s].state = "Normal"
        /\ log[s] # <<>>
        /\ after[s] = "none"

\* ------------------------------------------------- C18
\* What the thread has put, without the end marker.
QueuedToShow == SelectSeq(executor.queued, LAMBDA item : item.type # "end")

\* stop(quitting=False) killed the running command and has returned.
KilledAndStopped == executor.killed /\ executor.stop = "returned" /\ executor.displayed # <<>>
                        /\ executor.displayed[Len(executor.displayed)] = KilledItem

\* C18 as stated: when stop() has killed the running command and shown
\* "Killed.", what the text widget shows is every item the thread has put
\* before its end marker, in the order of the puts, then "Killed.".
C18_EveryItemShown ==
    KilledAndStopped =>
        /\ executor.thread = "done"
        /\ executor.displayed = Append(QueuedToShow, KilledItem)

\* C18 as amended: the same, except for the thread's own item "The process
\* failed with status -9.", which stop() takes from the queue and does not
\* show: "Killed." stands in its place, as the last item.
C18_EveryItemButStatusShown ==
    KilledAndStopped =>
        /\ executor.thread = "done"
        /\ executor.queue = <<>>
        /\ ~executor.timeout_id
        /\ executor.displayed =
              Append(SelectSeq(QueuedToShow, LAMBDA item : item # StatusItem(-SIGKILL)),
                     KilledItem)
        /\ Len(QueuedToShow) = Len(executor.displayed)
        /\ QueuedToShow[Len(QueuedToShow)] = StatusItem(-SIGKILL)

\* The command was killed after the thread had read all its output: the
\* command line, every chunk and then "Killed." are shown.
C18_Witness ==
    /\ KilledAndStopped
    /\ Len(executor.displayed) = MaxOutput + 2
    /\ executor.read = MaxOutput

\* ------------------------------------------------- C19
\* The word that the user has typed before the cursor.
TypedPrefix(before_cursor) ==
    SliceFrom(before_cursor, Len(before_cursor) - prefix_len(before_cursor))

\* The text with the typed word removed from its start.
WithoutPrefix(text, typed) ==
    IF startswith(text, typed) THEN SliceFrom(text, Len(typed)) ELSE text

\* C19: for every completion candidate, the filter text produced is the
\* candidate's filter text (else its insert text, else its label) with the
\* word typed before the cursor removed, so that it does not include the typed
\* word.
C19_FilterTextWithoutPrefix ==
    candidate.handled =>
        LET item == candidate.item
            text == Or(item.filterText, Or(item.insertText, item.label))
        IN  candidate.completion.filter_text
                = WithoutPrefix(text, TypedPrefix(candidate.before_cursor))

\* ------------------------------------------------- C20
\* C20 as it is stated: documentation that begins with the label is returned
\* unchanged, other documentation is returned as label, blank line,
\* documentation.
C20_DocumentationWithLabel ==
    (candidate.handled /\ candidate.item.documentation # <<>>) =>
        LET item == candidate.item
        IN  candidate.completion.documentation
                = IF startswith(item.documentation, item.label)
                  THEN item.documentation
                  ELSE item.label \o <<"\n", "\n">> \o item.documentation

\* C20: documentation that begins with the label, taken without the whitespace
\* around it, is returned unchanged; other documentation is returned as that
\* stripped label, a blank line and the documentation.
C20_DocumentationWithStrippedLabel ==
    (candidate.handled /\ candidate.item.documentation # <<>>) =>
        LET item == candidate.item
        IN  candidate.completion.documentation
                = IF startswith(item.documentation, strip(item.label))
                  THEN item.documentation
                  ELSE strip(item.label) \o <<"\n", "\n">> \o item.documentation

\* An item whose label starts with a space has been given the stripped label
\* and a blank line in front of its documentation.
C20_Witness ==
    /\ candidate.handled
    /\ candidate.item.documentation # <<>>
    /\ strip(candidate.item.label) # candidate.item.label
    /\ strip(candidate.item.label) # <<>>
    /\ ~startswith(candidate.item.documentation, strip(candidate.item.label))
    /\ candidate.completion.documentation
           = strip(candidate.item.label) \o <<"\n", "\n">> \o candidate.item.documentation

\* ------------------------------------------------- C21
\* C21: on the transport with the thread and the queue, read() reports the
\* closure (empty bytes) only when the output of the process is closed; it
\* never reports it while the process still has its stdout open.
C21_ClosureOnlyWhenClosed ==
    \A i \in 1 .. Len(stdio.results) :
        stdio.results[i].result = "closed" => ~stdio.open

\* ------------------------------------------------- C22
\* C22: the loop and the supervisor of a LangServer that is shutting down
\* cleanly never kill its process: when the pipe closes while the process
\* runs, the supervisor polls again until the process has exited.
C22_NoKillWhenShuttingDown ==
    [][\A s \in DOMAIN servers :
          (/\ servers[s].is_shutting_down_cleanly
           /\ procs[s].exit_code = NoVal
           /\ tabs' = tabs) =>
              procs'[s].exit_code # -SIGKILL
      ]_vars

\* ------------------------------------------------- C23
\* The tick of LangServer s reads b'' from its pipe: the write did not raise,
\* and after the tick no callback of the loop or one of the supervisor is
\* pending.
ReadsClosure(s) ==
    /\ after[s] = "run_stuff"
    /\ after'[s] # "run_stuff"
    /\ ~WriteRaises(World, s, servers[s].outgoing)
    /\ Tick(s)

\* C23: when the pipe closes and the LangServer is not shutting down cleanly,
\* the supervisor does not poll again: in that same tick the process, if it
\* still runs, is killed and waited for, and the termination is logged as
\* unexpected (level error) with the exit status of the process.
C23_UnexpectedClosureKills ==
    [][\A s \in DOMAIN servers :
          (~servers[s].is_shutting_down_cleanly /\ ReadsClosure(s)) =>
              /\ after'[s] = "none"
              /\ procs'[s].status = "exited"
              /\ procs'[s].exit_code \in
                    IF procs[s].exit_code # NoVal
                    THEN {procs[s].exit_code}
                    ELSE {-SIGKILL} \cup ExitCodes
              /\ log'[s] = <<[level |-> "error", exit_code |-> procs'[s].exit_code]>>
      ]_vars

\* A LangServer in use whose process closed its stdout and kept running was
\* killed; the log has the unexpected termination by signal 9.
C23_Witness ==
    \E s \in DOMAIN servers :
        /\ ~servers[s].is_shutting_down_cleanly
        /\ servers[s].state = "Normal"
        /\ procs[s].status = "exited"
        /\ log[s] = <<[level |-> "error", exit_code |-> -SIGKILL]>>
        /\ after[s] = "none"

\* ------------------------------------------------- C24
\* C24: a LangServer whose termination the supervisor has logged is not the
\* entry of its id in langservers, whenever its process died, so that
\* get_lang_server starts a new one for the id and does not return it.
C24_LoggedIsUnregistered ==
    \A s \in DOMAIN servers : Terminated(s) => ~Registered(s)

\* ------------------------------------------------- C25
\* C25: a tick first writes what the client has queued, then reads.  When the
\* read finds nothing (None) or data, the next tick is scheduled and the
\* supervisor is not called; when it finds the closure (b''), the supervisor is
\* called and no tick is scheduled.  Once a LangServer has read the closure, no
\* tick of it is scheduled or runs again.
C25_TickOutcomes ==
    [][\A s \in DOMAIN servers :
          /\ (/\ after[s] = "run_stuff"
              /\ ~WriteRaises(World, s, servers[s].outgoing)
              /\ Tick(s)) =>
                /\ procs'[s].stdin = procs[s].stdin \o servers[s].outgoing
                /\ IF procs[s].stdout # <<>>
                   THEN /\ Len(procs'[s].stdout) < Len(procs[s].stdout)
                        /\ after'[s] = "run_stuff"
                        /\ log'[s] = log[s]
                   ELSE \/ /\ procs'[s].status = "running"
                           /\ after'[s] = "run_stuff"
                           /\ log'[s] = log[s]
                        \/ /\ procs'[s].status # "running"
                           /\ \/ after'[s] = "quit_soon" /\ log'[s] = log[s]
                              \/ after'[s] = "none" /\ Len(log'[s]) = Len(log[s]) + 1
          /\ (after[s] = "quit_soon" \/ Terminated(s)) =>
                after'[s] # "run_stuff" /\ ~Tick(s)
      ]_vars

\* A tick wrote the exit notification; a later tick read the closure while the
\* process was running, and the supervisor waits for the process.
C25_Witness ==
    \E s \in DOMAIN servers :
        /\ OfMethod(procs[s].stdin, "exit") # <<>>
        /\ procs[s].status = "stdout_closed"
        /\ after[s] = "quit_soon"

\* ------------------------------------------------- C26
\* The messages that the tick of this step read from the pipe of LangServer s.
Received(s) ==
    SubSeq(procs[s].stdout, 1, Len(procs[s].stdout) - Len(procs'[s].stdout))

\* The tick of this step read data from the pipe of LangServer s.
ReadsData(s) ==
    /\ after[s] = "run_stuff"
    /\ procs[s].stdout # <<>>
    /\ ~WriteRaises(World, s, servers[s].outgoing)
    /\ TickBatch(s)

\* C26: the events that the client returns for what a tick has read are given
\* to the handler once each, in the order of the client; for each event that
\* the handler raises on, one exception is logged, the events after it are
\* handled all the same, and the next tick is scheduled.
C26_EveryEventDispatched ==
    [][\A s \in DOMAIN servers :
          (ReadsData(s) /\ ~ClientRecvRaises(Received(s))) =>
              LET events == ClientRecv(servers[s], Received(s)).events
              IN  /\ dispatch'.dispatched = events
                  /\ Len(dispatch'.exceptions)
                        = Len(SelectSeq(events, LAMBDA ev : ev.kind = "Other"))
                  /\ after'[s] = "run_stuff"
                  /\ (\E i \in 1 .. Len(events) : events[i].kind = "Initialized") =>
                        /\ servers'[s].state = "Normal"
                        /\ Len(OfMethod(servers'[s].outgoing, "textDocument/didOpen"))
                              = Len(servers[s].tabs_opened)
      ]_vars

\* One read returned a notification that the handler raises on, then the
\* answer to initialize: the exception is logged, the tabs are opened and the
\* next tick is scheduled.
C26_Witness ==
    \E s \in DOMAIN servers :
        /\ Len(dispatch.dispatched) = 2
        /\ dispatch.dispatched[1].kind = "Other"
        /\ dispatch.dispatched[2].kind = "Initialized"
        /\ dispatch.exceptions = <<"error while handling langserver event">>
        /\ OfMethod(servers[s].outgoing, "textDocument/didOpen") # <<>>
        /\ after[s] = "run_stuff"

\* ------------------------------------------------- C27
\* C27: when the client cannot decode what a tick has read, the exception is
\* logged and no event is handled in that tick; the state of the client, the
\* tabs and the pending completions of the LangServer, its entry in
\* langservers and the tabs are as before, and the next tick is scheduled.
C27_DecodeFaultDropsEvents ==
    [][\A s \in DOMAIN servers :
          (ReadsData(s) /\ ClientRecvRaises(Received(s))) =>
              /\ dispatch'.dispatched = <<>>
              /\ dispatch'.exceptions = <<"error while receiving lsp events">>
              /\ servers'[s] = [servers[s] EXCEPT !.outgoing = <<>>]
              /\ langservers' = langservers
              /\ tabs' = tabs
              /\ log' = log
              /\ after'[s] = "run_stuff"
      ]_vars

\* The answer to initialize came in one read with bytes that cannot be decoded:
\* the LangServer is still Starting, nothing waits in the pipe, the loop goes on.
C27_Witness ==
    \E s \in DOMAIN servers :
        /\ dispatch = [dispatched |-> <<>>,
                       exceptions |-> <<"error while receiving lsp events">>]
        /\ 0 \in procs[s].answered
        /\ procs[s].stdout = <<>>
        /\ servers[s].state = "Starting"
        /\ Registered(s)
        /\ after[s] = "run_stuff"

\* ------------------------------------------------- C28
\* The tick of this step gave a Shutdown event of LangServer s to the handler.
HandlesShutdown(s) ==
    /\ after[s] = "run_stuff"
    /\ \E i \in 1 .. Len(dispatch'.dispatched) : dispatch'.dispatched[i].kind = "Shutdown"
    /\ Tick(s)

OpensOf(seq, t) ==
    SelectSeq(seq, LAMBDA m : m.method = "textDocument/didOpen" /\ m.tab = t)

\* C29: a tab attached to a LangServer in state Normal gets its open
\* notification in open_tab; a tab attached to one in state Starting gets none
\* then, and one in the step from Starting to Normal if it is still in
\* tabs_opened.  No LangServer ever emits two open notifications for a tab, and
\* one that has left Starting and whose process has not exited has emitted
\* one for each tab of tabs_opened.
C29_OpenedOnce ==
    [][/\ \A t \in Tabs :
            (Opens(t) /\ tabs'[t].langserver # None) =>
                LET s == tabs'[t].langserver
                IN  IF s \in DOMAIN servers /\ servers[s].state = "Normal"
                    THEN servers'[s].outgoing
                            = Append(servers[s].outgoing, DidOpen(t, tabs'[t].text, 0))
                    ELSE OpensOf(procs'[s].stdin \o servers'[s].outgoing, t) = <<>>
       /\ \A s \in DOMAIN servers :
            (servers[s].state = "Starting" /\ servers'[s].state = "Normal") =>
                \A t \in Tabs :
                    Len(OpensOf(servers'[s].outgoing, t))
                        = IF \E i \in DOMAIN servers[s].tabs_opened :
                                servers[s].tabs_opened[i] = t
                          THEN 1 ELSE 0
       /\ \A s \in DOMAIN servers' : \A t \in Tabs :
            LET opens == OpensOf(procs'[s].stdin \o servers'[s].outgoing, t)
            IN  /\ Len(opens) <= 1
                /\ (/\ \E i \in DOMAIN servers'[s].tabs_opened :
                          servers'[s].tabs_opened[i] = t
                    /\ servers'[s].state # "Starting"
                    /\ procs'[s].status # "exited") => Len(opens) = 1
      ]_vars

\* Tab 1 was attached to a starting LangServer and opened in the replay, which
\* a tick has written; tab 2 was attached after that and its open notification
\* waits in the client.
C29_Witness ==
    \E s \in DOMAIN servers :
        /\ servers[s].tabs_opened = <<1, 2>>
        /\ Len(OpensOf(procs[s].stdin, 1)) = 1
        /\ OpensOf(servers[s].outgoing, 1) = <<>>
        /\ OpensOf(procs[s].stdin, 2) = <<>>
        /\ Len(OpensOf(servers[s].outgoing, 2)) = 1

\* ------------------------------------------------- C30
IsPrefix(a, b) == Len(a) <= Len(b) /\ SubSeq(b, 1, Len(a)) = a

\* The chunks in front of the first sentinel.
RECURSIVE UpToSentinel(_)
UpToSentinel(q) ==
    IF q = <<>> \/ Head(q) = None THEN <<>> ELSE <<Head(q)>> \o UpToSentinel(Tail(q))

\* The chunks that the thread has taken or will take from the queue.
ToSend(IO) ==
    IF IO.worker_thread = "done" THEN <<>>
    ELSE IF IO.worker_thread = "sendall" THEN <<IO.bytez>> \o UpToSentinel(IO.send_queue)
    ELSE UpToSentinel(IO.send_queue)

\* The chunks written before the sentinel was put.
ToBeSent(IO) ==
    IF IO.stopped_at = NoVal THEN IO.written ELSE SubSeq(IO.written, 1, IO.stopped_at)

\* C30: write() only puts its chunk into the queue and sends nothing.  Nothing
\* is sent before connect() has returned.  The chunks sent are a prefix of the
\* chunks written, and with those that the thread has still to take they are
\* the chunks written before the sentinel: none lost, none twice, in the order
\* of the calls of write().  The thread ends at the sentinel, or at a sendall
\* that raises after the langserver has closed the connection.
C30_QueuedThenSentInOrder ==
    [][/\ sockio'.written # sockio.written =>
            /\ sockio'.sent = sockio.sent
            /\ sockio'.send_queue
                  = Append(sockio.send_queue, sockio'.written[Len(sockio'.written)])
       /\ ~sockio'.connected => sockio'.sent = <<>>
       /\ IsPrefix(sockio'.sent, sockio'.written)
       /\ sockio'.worker_thread # "raised" =>
              sockio'.sent \o ToSend(sockio') = ToBeSent(sockio')
       /\ sockio'.worker_thread = "raised" =>
              sockio'.peer_closed /\ IsPrefix(sockio'.sent, ToBeSent(sockio'))
      ]_vars

\* A chunk was written before the connection, another after it, both were
\* sent; the langserver closed the connection, read() put the sentinel and
\* the thread has ended at it.
C30_Witness ==
    /\ sockio.early = 1
    /\ sockio.worker_thread = "done"
    /\ sockio.sent = <<1, 2>>
    /\ sockio.stopped_at = 2

\* ------------------------------------------------- C31
\* C31: a LangServer that is the entry of its id in langservers has a callback
\* pending, the next tick of its loop or the next poll of the supervisor.
C31_RegisteredHasLoop ==
    \A s \in DOMAIN servers : Registered(s) => after[s] # "none"

\* ------------------------------------------------- C32
\* ShutdownSpec: the whole life of the first langserver, with timers that
\* fire (a pending after() callback runs after its delay) and a langserver
\* process that answers the requests it has read and exits in the end.
ShutdownNext ==
    \/ \E t \in Tabs : NewTab(t) /\ Len(servers') <= 1 /\ tabs'[t].langserver # None
    \/ \E t \in Tabs : DestroyTab(t)
    \/ \E s \in DOMAIN servers : Tick(s)
    \/ \E s \in DOMAIN servers : QuitSoonPoll(s)
    \/ \E s \in DOMAIN servers : ServerRespond(s)
    \/ \E s \in DOMAIN servers : ServerExit(s)

ShutdownSpec ==
    /\ Init
    /\ [][ShutdownNext]_vars
    /\ \A s \in Sess :
        /\ WF_vars(s \in DOMAIN servers /\ Tick(s))
        /\ WF_vars(s \in DOMAIN servers /\ QuitSoonPoll(s))
        /\ WF_vars(s \in DOMAIN servers /\ ServerRespond(s))
        /\ WF_vars(s \in DOMAIN servers /\ ServerExit(s))

\* C32: once close_tab has queued the shutdown request of a LangServer (state
\* ShuttingDown), if the timers fire and the langserver acknowledges the
\* shutdown and then exits, the clean shutdown is eventually over: shutdown
\* request and exit notification are written, no callback is pending, the
\* LangServer is not registered, and one termination is logged, at info level,
\* of a process that was not killed.  The other outcome allowed is that of a
\* langserver that never acknowledges: it is gone, or has closed its stdout,
\* with the shutdown request unanswered.
C32_CleanShutdownTerminates ==
    \A s \in Sess :
        (s \in DOMAIN servers /\ servers[s].state = "ShuttingDown")
        ~> (/\ s \in DOMAIN servers
            /\ \/ /\ OfMethod(procs[s].stdin, "shutdown") # <<>>
                  /\ OfMethod(procs[s].stdin, "exit") # <<>>
                  /\ after[s] = "none"
                  /\ ~Registered(s)
                  /\ Len(log[s]) = 1
                  /\ log[s][1].level = "info"
                  /\ log[s][1].exit_code \in ExitCodes
               \/ /\ procs[s].status # "running"
                  /\ \A j \in 1 .. Len(procs[s].stdin) :
                        procs[s].stdin[j].method = "shutdown"
                            => procs[s].stdin[j].id \notin procs[s].answered)

\* ------------------------------------------------- C33
\* C33: no shell process of an Executor that run_command has replaced runs
\* while the shell process of the Executor that took its place runs.
C33_NoTwoCommandsInParallel ==
    \A i \in DOMAIN runner.replaced :
        ~(runner.replaced[i].shell_process = "running"
            /\ executor.shell_process = "running")

====
